---- MODULE Spec2Model ----
(***************************************************************************)
(* Model of the octree of src/Octo-tree.cpp: insertPoint builds the tree,  *)
(* findPointsInSphere queries it and rewrites the points' flags.           *)
(*                                                                         *)
(* Coordinates are the program's floats written as integers in units of    *)
(* 1/Unit, so that every halving of the root cube down to MaxDepth is      *)
(* exact, as it is in binary floating point.                               *)
(***************************************************************************)
EXTENDS Integers, Sequences, FiniteSets, TLC

(* ---------------- bounds ---------------- *)
MaxDepth == 6
MaxInserts == 5

(* one program unit is Unit model units: 200 * Unit / 2^(MaxDepth+1) is whole *)
Unit == 2 ^ (MaxDepth - 2)

(* the default value of insertPoint's maxPoints parameter *)
DefaultMaxPoints == 4

(* ---------------- Point3D ---------------- *)
Point3D(px, py, pz) == [x |-> px * Unit, y |-> py * Unit, z |-> pz * Unit,
                        isInsideSphere |-> FALSE]

Coord(p) == <<p.x, p.y, p.z>>

(* ---------------- OctreeNode ---------------- *)
(* A tree is a function from paths (sequences of child indices) to nodes;  *)
(* children[i] of the node at path is non-null iff Append(path, i) is in   *)
(* the domain.                                                             *)
OctreeNode(nx, ny, nz, nsize) == [x |-> nx, y |-> ny, z |-> nz, size |-> nsize,
                                  points |-> <<>>]

Max(a, b) == IF a >= b THEN a ELSE b
Min(a, b) == IF a <= b THEN a ELSE b

containsPoint_noUpperX(node, point) ==
    /\ point.x >= node.x - node.size \div 2
    /\ point.y >= node.y - node.size \div 2 /\ point.y <= node.y + node.size \div 2
    /\ point.z >= node.z - node.size \div 2 /\ point.z <= node.z + node.size \div 2

(* lines 32-34 comparing with size instead of size / 2 *)
containsPoint_fullSize(node, point) ==
    /\ point.x >= node.x - node.size /\ point.x <= node.x + node.size
    /\ point.y >= node.y - node.size /\ point.y <= node.y + node.size
    /\ point.z >= node.z - node.size /\ point.z <= node.z + node.size

containsPoint(node, point) ==
    /\ point.x >= node.x - node.size \div 2 /\ point.x <= node.x + node.size \div 2
    /\ point.y >= node.y - node.size \div 2 /\ point.y <= node.y + node.size \div 2
    /\ point.z >= node.z - node.size \div 2 /\ point.z <= node.z + node.size \div 2

intersectsSphere(node, sx, sy, sz, sr) ==
    LET dx == Max(node.x - node.size \div 2, Min(sx, node.x + node.size \div 2)) - sx
        dy == Max(node.y - node.size \div 2, Min(sy, node.y + node.size \div 2)) - sy
        dz == Max(node.z - node.size \div 2, Min(sz, node.z + node.size \div 2)) - sz
    IN  dx * dx + dy * dy + dz * dz <= sr * sr

childIsNull(t, path, i) == Append(path, i) \notin DOMAIN t

(* ---------------- insertPoint ---------------- *)
(* The state threaded through the recursion is [t, ok]: ok turns FALSE     *)
(* when a node at depth MaxDepth would have to subdivide, and the          *)
(* recursion then unwinds; the caller discards such a result.              *)

(* lines 58-65 with the y and z offsets taken from each other's bit *)
newChildren_swappedBits(t, path) ==
    LET node == t[path]
        half == node.size \div 2
        quarter == half \div 2
        offsetX(i) == IF i % 2 = 1 THEN quarter ELSE -quarter
        offsetY(i) == IF (i \div 4) % 2 = 1 THEN quarter ELSE -quarter
        offsetZ(i) == IF (i \div 2) % 2 = 1 THEN quarter ELSE -quarter
    IN  [cp \in {Append(path, i) : i \in 0..7} |->
            LET i == cp[Len(cp)]
            IN  OctreeNode(node.x + offsetX(i), node.y + offsetY(i),
                           node.z + offsetZ(i), half)]

(* lines 58-65: the eight children of the node at path *)
newChildren(t, path) ==
    LET node == t[path]
        half == node.size \div 2
        quarter == half \div 2
        offsetX(i) == IF i % 2 = 1 THEN quarter ELSE -quarter
        offsetY(i) == IF (i \div 2) % 2 = 1 THEN quarter ELSE -quarter
        offsetZ(i) == IF (i \div 4) % 2 = 1 THEN quarter ELSE -quarter
    IN  [cp \in {Append(path, i) : i \in 0..7} |->
            LET i == cp[Len(cp)]
            IN  OctreeNode(node.x + offsetX(i), node.y + offsetY(i),
                           node.z + offsetZ(i), half)]

RECURSIVE insertPoint(_, _, _, _)
RECURSIVE insertIntoChildren(_, _, _, _)
RECURSIVE movePoints(_, _, _)

(* lines 77-79 (and 69-71): insertPoint on children i..7, default maxPoints *)
insertIntoChildren(st, path, point, i) ==
    IF i > 7 THEN st
    ELSE LET s1 == insertPoint(st, Append(path, i), point, DefaultMaxPoints)
         IN  IF ~s1.ok THEN s1
             ELSE insertIntoChildren(s1, path, point, i + 1)

(* lines 68-72 left out: the node's points are cleared without being moved *)
movePoints_dropped(st, path, k) == st

(* lines 68-72: re-insert the node's points k.. into the children *)
movePoints(st, path, k) ==
    IF k > Len(st.t[path].points) THEN st
    ELSE LET s1 == insertIntoChildren(st, path, st.t[path].points[k], 0)
         IN  IF ~s1.ok THEN s1
             ELSE movePoints(s1, path, k + 1)

(* lines 57-74 without node->points.clear() *)
subdivide_noClear(st, path) ==
    IF Len(path) >= MaxDepth THEN [st EXCEPT !.ok = FALSE]
    ELSE movePoints([st EXCEPT !.t = newChildren(st.t, path) @@ st.t], path, 1)

(* lines 57-74: subdivide the leaf at path *)
subdivide(st, path) ==
    IF Len(path) >= MaxDepth THEN [st EXCEPT !.ok = FALSE]
    ELSE LET s1 == [st EXCEPT !.t = newChildren(st.t, path) @@ st.t]
             s2 == movePoints(s1, path, 1)
         IN  IF ~s2.ok THEN s2
             ELSE [s2 EXCEPT !.t[path].points = <<>>]

insertPoint(st, path, point, maxPoints) ==
    IF ~containsPoint(st.t[path], point) THEN st
    ELSE IF Len(st.t[path].points) < maxPoints /\ childIsNull(st.t, path, 0)
         THEN [st EXCEPT !.t[path].points = Append(@, point)]
    ELSE LET s1 == IF childIsNull(st.t, path, 0) THEN subdivide(st, path) ELSE st
         IN  IF ~s1.ok THEN s1
             ELSE insertIntoChildren(s1, path, point, 0)

(* ---------------- findPointsInSphere ---------------- *)
(* The state threaded through the recursion is [t, result, visited]; an    *)
(* entry of result is the pointer <<path, index>> to a stored point, and   *)
(* visited is the set of nodes whose points the call went on to examine.   *)
RECURSIVE findPointsInSphere(_, _, _, _, _, _)
RECURSIVE findInChildren(_, _, _, _, _, _, _)
RECURSIVE scanPoints(_, _, _, _, _, _, _)

(* lines 87-98 without the else branch *)
scanPoints_noReset(st, path, k, sx, sy, sz, sr) ==
    IF k > Len(st.t[path].points) THEN st
    ELSE LET point == st.t[path].points[k]
             dx == point.x - sx
             dy == point.y - sy
             dz == point.z - sz
             s1 == IF dx * dx + dy * dy + dz * dz <= sr * sr
                   THEN [st EXCEPT !.t[path].points[k].isInsideSphere = TRUE,
                                   !.result = Append(@, <<path, k>>)]
                   ELSE st
         IN  scanPoints(s1, path, k + 1, sx, sy, sz, sr)

(* lines 87-98 reporting a point only when its flag was not already set *)
scanPoints_onlyNew(st, path, k, sx, sy, sz, sr) ==
    IF k > Len(st.t[path].points) THEN st
    ELSE LET point == st.t[path].points[k]
             dx == point.x - sx
             dy == point.y - sy
             dz == point.z - sz
             s1 == IF dx * dx + dy * dy + dz * dz <= sr * sr
                   THEN [st EXCEPT !.t[path].points[k].isInsideSphere = TRUE,
                                   !.result = IF point.isInsideSphere THEN @
                                              ELSE Append(@, <<path, k>>)]
                   ELSE [st EXCEPT !.t[path].points[k].isInsideSphere = FALSE]
         IN  scanPoints(s1, path, k + 1, sx, sy, sz, sr)

(* lines 87-98: the loop over node->points from index k *)
scanPoints(st, path, k, sx, sy, sz, sr) ==
    IF k > Len(st.t[path].points) THEN st
    ELSE LET point == st.t[path].points[k]
             dx == point.x - sx
             dy == point.y - sy
             dz == point.z - sz
             s1 == IF dx * dx + dy * dy + dz * dz <= sr * sr
                   THEN [st EXCEPT !.t[path].points[k].isInsideSphere = TRUE,
                                   !.result = Append(@, <<path, k>>)]
                   ELSE [st EXCEPT !.t[path].points[k].isInsideSphere = FALSE]
         IN  scanPoints(s1, path, k + 1, sx, sy, sz, sr)

(* lines 101-103: the calls on children i..7, one after the other (the    *)
(* test on s1 makes the call on child i complete before the next begins)   *)
findInChildren(st, path, i, sx, sy, sz, sr) ==
    IF i > 7 THEN st
    ELSE LET s1 == findPointsInSphere(st, Append(path, i), sx, sy, sz, sr)
         IN  IF Len(s1.result) < Len(st.result) THEN st
             ELSE findInChildren(s1, path, i + 1, sx, sy, sz, sr)

(* a query that clears the flags of the points of a node it prunes *)
findPointsInSphere_clearPruned(st, path, sx, sy, sz, sr) ==
    IF path \notin DOMAIN st.t THEN st
    ELSE IF ~intersectsSphere(st.t[path], sx, sy, sz, sr)
         THEN [st EXCEPT !.t[path].points =
                  [k \in DOMAIN @ |-> [@[k] EXCEPT !.isInsideSphere = FALSE]]]
    ELSE findInChildren(scanPoints([st EXCEPT !.visited = @ \cup {path}],
                                   path, 1, sx, sy, sz, sr),
                        path, 0, sx, sy, sz, sr)

findPointsInSphere(st, path, sx, sy, sz, sr) ==
    IF path \notin DOMAIN st.t \/ ~intersectsSphere(st.t[path], sx, sy, sz, sr) THEN st
    ELSE findInChildren(scanPoints([st EXCEPT !.visited = @ \cup {path}],
                                   path, 1, sx, sy, sz, sr),
                        path, 0, sx, sy, sz, sr)

(* ---------------- the program ---------------- *)
(* tree, capacity and result are the program's state; inserted (the points *)
(* passed to insertPoint so far), last (the last call), repeated (the last *)
(* call repeated the call before it) and visited (the nodes the last query *)
(* examined) record the history the properties speak about.                *)
VARIABLES tree, capacity, inserted, last, repeated, result, visited
vars == <<tree, capacity, inserted, last, repeated, result, visited>>

(* main, line 206: root = new OctreeNode(0, 0, 0, 200) *)
Root == OctreeNode(0, 0, 0, 200 * Unit)

(* points the caller inserts: inside an octant, on a split plane, outside  *)
(* the root cube                                                           *)
Points == { Point3D(10, 10, 10), Point3D(0, 10, 10), Point3D(150, 0, 0) }

(* values of maxPoints the caller passes: a small one and the default *)
Capacities == {1, DefaultMaxPoints}

(* spheres the caller queries: <<sx, sy, sz, sr>> in program units *)
Spheres == { <<10, 10, 10, 0>>, <<10, 10, 10, -15>>, <<0, 0, 0, 200>>,
             <<-30, -30, -30, 5>> }

Sphere(s) == [op |-> "query", sx |-> s[1] * Unit, sy |-> s[2] * Unit,
              sz |-> s[3] * Unit, sr |-> s[4] * Unit]

(* main, lines 206-209: a fresh root, then insertPoint for the points of   *)
(* seq from index k on, in sequence order                                  *)
RECURSIVE build(_, _, _, _)
build(st, seq, k, maxPoints) ==
    IF k > Len(seq) THEN st
    ELSE LET s1 == insertPoint(st, <<>>, seq[k], maxPoints)
         IN  IF ~s1.ok THEN s1
             ELSE build(s1, seq, k + 1, maxPoints)

Init ==
    /\ tree = (<<>> :> Root)
    /\ capacity \in Capacities
    /\ inserted = <<>>
    /\ last = [op |-> "none"]
    /\ repeated = FALSE
    /\ result = <<>>
    /\ visited = {}

(* main, lines 207-209: insertPoint(root, point, capacity), before any query *)
Insert(point) ==
    /\ last.op \notin {"query", "overflow"}
    /\ Len(inserted) < MaxInserts
    /\ \E r \in {insertPoint([t |-> tree, ok |-> TRUE], <<>>, point, capacity)} :
           /\ r.ok
           /\ tree' = r.t
    /\ inserted' = Append(inserted, point)
    /\ last' = [op |-> "insert", point |-> point]
    /\ repeated' = FALSE
    /\ UNCHANGED <<capacity, result, visited>>

(* main, lines 207-209, when the recursion of insertPoint passes depth     *)
(* MaxDepth. With the points of the model this happens only when a leaf    *)
(* already holds DefaultMaxPoints copies of the point (OverflowIsInseparable *)
(* below): every subdivision then puts them into one child again, which    *)
(* subdivides in turn (lines 57-79), and the call does not return. The     *)
(* program ends there; the variables keep their values from before the     *)
(* call.                                                                   *)
InsertOverflow(point) ==
    /\ last.op \notin {"query", "overflow"}
    /\ Len(inserted) < MaxInserts
    /\ ~insertPoint([t |-> tree, ok |-> TRUE], <<>>, point, capacity).ok
    /\ last' = [op |-> "overflow", point |-> point]
    /\ UNCHANGED <<tree, capacity, inserted, repeated, result, visited>>

(* main, lines 256-257: a fresh result vector, then findPointsInSphere on the root *)
Query(s) ==
    /\ last.op # "overflow"
    /\ \E q \in {Sphere(s)} :
       \E r \in {findPointsInSphere([t |-> tree, result |-> <<>>, visited |-> {}],
                                    <<>>, q.sx, q.sy, q.sz, q.sr)} :
           /\ tree' = r.t
           /\ result' = r.result
           /\ visited' = r.visited
           /\ last' = q
           /\ repeated' = (last = q)
    /\ UNCHANGED <<capacity, inserted>>

Next ==
    \/ \E point \in Points : Insert(point)
    \/ \E point \in Points : InsertOverflow(point)
    \/ \E s \in Spheres : Query(s)

Spec == Init /\ [][Next]_vars

(* ---------------- the scenario of the specification ---------------- *)
(* root cube centre (0,0,0), size 200, capacity 4, five points on the z axis *)
ScenarioSeq == << Point3D(0, 0, 0), Point3D(0, 0, 1), Point3D(0, 0, 2),
                  Point3D(0, 0, 3), Point3D(0, 0, 4) >>

ScenarioSpheres == { <<0, 0, 0, 2>>, <<0, 0, 0, 200>>, <<0, 0, 3, 1>>,
                     <<0, 0, 4, 0>>, <<-50, -50, -50, 90>>, <<0, 0, 1, -1>>,
                     <<50, 50, 50, 60>> }

InitScenario ==
    /\ tree = (<<>> :> Root)
    /\ capacity = DefaultMaxPoints
    /\ inserted = <<>>
    /\ last = [op |-> "none"]
    /\ repeated = FALSE
    /\ result = <<>>
    /\ visited = {}

(* the points are inserted in the order of ScenarioSeq *)
InsertScenario(k) ==
    /\ k = Len(inserted) + 1
    /\ Insert(ScenarioSeq[k])

NextScenario ==
    \/ \E k \in 1..Len(ScenarioSeq) : InsertScenario(k)
    \/ \E s \in ScenarioSpheres : Query(s)

SpecScenario == InitScenario /\ [][NextScenario]_vars

(* ---------------- geometry the properties are stated in ---------------- *)
Abs(a) == IF a >= 0 THEN a ELSE -a

(* p lies in the closed cube of node *)
InCube(p, node) ==
    /\ 2 * Abs(p.x - node.x) <= node.size
    /\ 2 * Abs(p.y - node.y) <= node.size
    /\ 2 * Abs(p.z - node.z) <= node.size

InRootCube(p) == InCube(p, Root)

Dist2(p, q) == (p.x - q.sx) * (p.x - q.sx) + (p.y - q.sy) * (p.y - q.sy)
               + (p.z - q.sz) * (p.z - q.sz)

(* distance(p, c) <= r for the sphere q = (c, r) *)
WithinSphere(p, q) == q.sr >= 0 /\ Dist2(p, q) <= q.sr * q.sr

(* twice the distance from the centre of q to the cube of node, per axis *)
Gap2(c, x, size) == IF 2 * Abs(c - x) > size THEN 2 * Abs(c - x) - size ELSE 0

(* the cube of node is within distance r of the centre of q *)
CubeIntersectsSphere(node, q) ==
    /\ q.sr >= 0
    /\ Gap2(q.sx, node.x, node.size) * Gap2(q.sx, node.x, node.size)
       + Gap2(q.sy, node.y, node.size) * Gap2(q.sy, node.y, node.size)
       + Gap2(q.sz, node.z, node.size) * Gap2(q.sz, node.z, node.size)
       <= 4 * q.sr * q.sr

(* the sphere q encloses the whole root cube *)
EnclosesRoot(q) ==
    /\ q.sr >= 0
    /\ (2 * Abs(q.sx - Root.x) + Root.size) * (2 * Abs(q.sx - Root.x) + Root.size)
       + (2 * Abs(q.sy - Root.y) + Root.size) * (2 * Abs(q.sy - Root.y) + Root.size)
       + (2 * Abs(q.sz - Root.z) + Root.size) * (2 * Abs(q.sz - Root.z) + Root.size)
       <= 4 * q.sr * q.sr

(* the stored points, as pointers <<path, index>> *)
AllPtrs(t) == UNION { {<<path, k>> : k \in 1..Len(t[path].points)} : path \in DOMAIN t }
At(t, ptr) == t[ptr[1]].points[ptr[2]]

IsLeaf(t, path) == \A i \in 0..7 : Append(path, i) \notin DOMAIN t

(* the node at path and all its ancestors *)
Chain(path) == { SubSeq(path, 1, k) : k \in 0..Len(path) }

InBounds == { i \in 1..Len(inserted) : InRootCube(inserted[i]) }

(* ---------------- C1 ---------------- *)
(* C1: every inserted point inside the root cube is stored in exactly one  *)
(* leaf (as many stored copies as insertions of it, all in leaves), and a  *)
(* point outside the root cube is stored nowhere.                          *)
C1_ExactlyOneLeaf ==
    \A i \in 1..Len(inserted) :
        LET c == Coord(inserted[i])
            stored == { ptr \in AllPtrs(tree) : Coord(At(tree, ptr)) = c }
            times == { j \in 1..Len(inserted) : Coord(inserted[j]) = c }
        IN  IF InRootCube(inserted[i])
            THEN /\ Cardinality(stored) = Cardinality(times)
                 /\ \A ptr \in stored : IsLeaf(tree, ptr[1])
            ELSE stored = {}

(* ---------------- C2 ---------------- *)
(* C2: the set of points a query returns is the brute-force set: the       *)
(* inserted points inside the root cube with distance(P, c) <= r.          *)
C2_QueryEqualsBruteForce ==
    last.op = "query" =>
        { Coord(At(tree, result[k])) : k \in 1..Len(result) }
        = { Coord(inserted[i]) : i \in { j \in InBounds : WithinSphere(inserted[j], last) } }

(* ---------------- C3 ---------------- *)
(* C3: every leaf at every depth holds at most capacity points, capacity   *)
(* being the maxPoints passed to the top-level insertPoint calls.          *)
C3_CapacityBound ==
    \A path \in DOMAIN tree :
        IsLeaf(tree, path) => Len(tree[path].points) <= capacity

(* ---------------- C4 ---------------- *)
(* C4: after a query the flag of every stored point, reached or not, is    *)
(* (distance(P, c) <= r) for that query's sphere.                          *)
C4_FlagOfLastQuery ==
    last.op = "query" =>
        \A ptr \in AllPtrs(tree) :
            At(tree, ptr).isInsideSphere = WithinSphere(At(tree, ptr), last)

(* ---------------- C5 ---------------- *)
(* C5: a query with radius r <= 0 returns no point other than points at    *)
(* the sphere centre.                                                      *)
C5_DegenerateRadius ==
    (last.op = "query" /\ last.sr <= 0) =>
        \A k \in 1..Len(result) :
            Coord(At(tree, result[k])) = <<last.sx, last.sy, last.sz>>

(* ---------------- C6 ---------------- *)
(* C6: a query whose sphere encloses the root cube returns one entry per   *)
(* inserted in-bounds point; in the scenario, radius 2 about the origin    *)
(* returns exactly 3 entries and the full-space query exactly 5.           *)
C6_OneEntryPerPoint ==
    /\ (last.op = "query" /\ EnclosesRoot(last)) =>
           Len(result) = Cardinality(InBounds)
    /\ (inserted = ScenarioSeq /\ last = Sphere(<<0, 0, 0, 2>>)) => Len(result) = 3
    /\ (inserted = ScenarioSeq /\ last = Sphere(<<0, 0, 0, 200>>)) => Len(result) = 5

(* ---------------- C7 ---------------- *)
(* C7: an insert of a point outside the root cube leaves the whole tree    *)
(* unchanged.                                                              *)
C7_OutsideInsertNoOp ==
    [][(last'.op = "insert" /\ inserted' = Append(inserted, last'.point)
        /\ ~InRootCube(last'.point)) => tree' = tree]_vars

(* an outside insert has just happened on a root leaf holding capacity points *)
C7_Witness ==
    /\ last.op = "insert"
    /\ ~InRootCube(last.point)
    /\ IsLeaf(tree, <<>>)
    /\ Len(tree[<<>>].points) = capacity

(* ---------------- C8 ---------------- *)
(* C8: a query that repeats the query before it returns the same result    *)
(* and leaves every flag as the first left it.                             *)
C8_QueryIdempotent ==
    [][(last.op = "query" /\ last' = last) => (result' = result /\ tree' = tree)]_vars

(* the same query has run twice in a row on a subdivided tree, returning   *)
(* some points and not others                                              *)
C8_Witness ==
    /\ repeated
    /\ result # <<>>
    /\ ~IsLeaf(tree, <<>>)
    /\ \E ptr \in AllPtrs(tree) : ~At(tree, ptr).isInsideSphere

(* ---------------- C9 ---------------- *)
(* C9: after a query, every stored point whose node and all of that node's *)
(* ancestors intersect the sphere has its flag equal to                    *)
(* (distance(P, c) <= r).                                                  *)
C9_FlagConsistency ==
    last.op = "query" =>
        \A ptr \in AllPtrs(tree) :
            (\A a \in Chain(ptr[1]) : CubeIntersectsSphere(tree[a], last))
            => At(tree, ptr).isInsideSphere = WithinSphere(At(tree, ptr), last)

(* after two queries, a point below the root whose chain intersects the    *)
(* sphere lies outside it, next to one that lies inside                    *)
C9_Witness ==
    /\ last.op = "query"
    /\ \E ptr \in AllPtrs(tree) :
          /\ Len(ptr[1]) >= 1
          /\ \A a \in Chain(ptr[1]) : CubeIntersectsSphere(tree[a], last)
          /\ ~WithinSphere(At(tree, ptr), last)
    /\ \E ptr \in AllPtrs(tree) :
          /\ \A a \in Chain(ptr[1]) : CubeIntersectsSphere(tree[a], last)
          /\ WithinSphere(At(tree, ptr), last)

OverflowIsInseparable ==
    last.op = "overflow" =>
        Cardinality({ i \in 1..Len(inserted) : Coord(inserted[i]) = Coord(last.point) })
        >= DefaultMaxPoints

(* C14: every call of insertPoint returns, also when more than capacity    *)
(* points with identical coordinates are inserted.                         *)
C14_InsertTerminates == last.op # "overflow"

(* ---------------- C11 ---------------- *)
(* C11: the nodes a query visits are exactly those whose cube, and the     *)
(* cube of every ancestor, is within distance r of the sphere centre: no   *)
(* node farther than r is visited, and none within r is pruned below       *)
(* ancestors within r.                                                     *)
C11_PruningSound ==
    last.op = "query" =>
        \A path \in DOMAIN tree :
            /\ path \in visited => CubeIntersectsSphere(tree[path], last)
            /\ (\A a \in Chain(path) : CubeIntersectsSphere(tree[a], last))
               => path \in visited

(* ---------------- C12 ---------------- *)
(* the coordinates of the points a result vector points to *)
ResultSet(t, res) == { Coord(At(t, res[k])) : k \in 1..Len(res) }

(* an order on points, and the inserted points in that order *)
PointBefore(p, q) ==
    \/ p.x < q.x
    \/ p.x = q.x /\ p.y < q.y
    \/ p.x = q.x /\ p.y = q.y /\ p.z < q.z
Sorted(seq) == SortSeq(seq, PointBefore)

(* C12: a query returns the same set of points from the tree built in the  *)
(* order the points were inserted and from a fresh tree (same root cube    *)
(* and capacity) built from the same points in sorted order; any two       *)
(* orders therefore agree.                                                 *)
C12_OrderIndependent ==
    [][(last.op # "query" /\ last'.op = "query") =>
          \A b \in {build([t |-> (<<>> :> Root), ok |-> TRUE], Sorted(inserted), 1, capacity)} :
              b.ok =>
                 \A r \in {findPointsInSphere([t |-> b.t, result |-> <<>>, visited |-> {}],
                                              <<>>, last'.sx, last'.sy, last'.sz, last'.sr)} :
                     ResultSet(r.t, r.result) = ResultSet(tree', result')]_vars

(* a query has returned two different points from a subdivided tree whose  *)
(* points were not inserted in sorted order, and the sorted order builds   *)
(* a tree as well                                                          *)
C12_Witness ==
    /\ last.op = "query"
    /\ inserted # Sorted(inserted)
    /\ ~IsLeaf(tree, <<>>)
    /\ Cardinality(ResultSet(tree, result)) >= 2
    /\ build([t |-> (<<>> :> Root), ok |-> TRUE], Sorted(inserted), 1, capacity).ok

(* ---------------- C13 ---------------- *)
(* C13: every node has all eight children absent or all eight present,    *)
(* and a node with children holds no points.                               *)
C13_LeafOrInternal ==
    \A path \in DOMAIN tree :
        /\ \/ \A i \in 0..7 : Append(path, i) \notin DOMAIN tree
           \/ \A i \in 0..7 : Append(path, i) \in DOMAIN tree
        /\ (\E i \in 0..7 : Append(path, i) \in DOMAIN tree) => tree[path].points = <<>>

(* an insert has subdivided the root and one of its children, and points   *)
(* are stored below                                                        *)
C13_Witness ==
    /\ last.op = "insert"
    /\ \E path \in DOMAIN tree : Len(path) = 1 /\ ~IsLeaf(tree, path)
    /\ AllPtrs(tree) # {}

(* ---------------- C16 ---------------- *)
(* C16: every stored point lies in the closed cube of its node and of      *)
(* every ancestor of that node.                                            *)
C16_PointsInCube ==
    \A ptr \in AllPtrs(tree) :
        \A a \in Chain(ptr[1]) : InCube(At(tree, ptr), tree[a])

(* points are stored below the root, one of them on a face of its leaf's   *)
(* cube, after an insert outside the root cube was made                    *)
C16_Witness ==
    /\ \E ptr \in AllPtrs(tree) :
          /\ Len(ptr[1]) >= 1
          /\ 2 * Abs(At(tree, ptr).x - tree[ptr[1]].x) = tree[ptr[1]].size
    /\ \E i \in 1..Len(inserted) : ~InRootCube(inserted[i])

(* ---------------- C17 ---------------- *)
Bit(i, b) == (i \div (2 ^ b)) % 2

(* C17: child i of a node has half the node's size, and its centre is the  *)
(* node's centre moved by size/4 along x, y, z: up where bit 0, 1, 2 of i  *)
(* is set, down where it is not.                                           *)
C17_ChildGeometry ==
    \A path \in DOMAIN tree : \A i \in 0..7 :
        Append(path, i) \in DOMAIN tree =>
            LET n == tree[path]
                c == tree[Append(path, i)]
            IN  /\ 2 * c.size = n.size
                /\ 4 * (c.x - n.x) = (IF Bit(i, 0) = 1 THEN n.size ELSE -n.size)
                /\ 4 * (c.y - n.y) = (IF Bit(i, 1) = 1 THEN n.size ELSE -n.size)
                /\ 4 * (c.z - n.z) = (IF Bit(i, 2) = 1 THEN n.size ELSE -n.size)

(* a node two levels below the root has been subdivided *)
C17_Witness ==
    \E path \in DOMAIN tree : Len(path) = 2 /\ ~IsLeaf(tree, path)

(* ---------------- C15 ---------------- *)
(* C15: a leaf becomes internal only in an insert of a point its cube      *)
(* contains, made while the leaf holds capacity points; a node that has    *)
(* children keeps them (same cubes) and never holds a point itself again.  *)
C15_OneWaySubdivision ==
    [][\A path \in DOMAIN tree :
          /\ ~IsLeaf(tree, path) =>
                /\ path \in DOMAIN tree'
                /\ tree'[path].points = <<>>
                /\ \A i \in 0..7 :
                      /\ Append(path, i) \in DOMAIN tree'
                      /\ [tree'[Append(path, i)] EXCEPT !.points = <<>>]
                         = [tree[Append(path, i)] EXCEPT !.points = <<>>]
          /\ (IsLeaf(tree, path) /\ path \in DOMAIN tree' /\ ~IsLeaf(tree', path)) =>
                /\ last'.op = "insert"
                /\ InCube(last'.point, tree[path])
                /\ Len(tree[path].points) = capacity]_vars

====
